---- MODULE Spec2Model ----
(***************************************************************************)
(* Trip planner backend: trip creation, deletion and plan regeneration     *)
(* (routes/trips.routes.ts) against a transactional store.                 *)
(*                                                                         *)
(* Strings are sequences of one-character strings, so that trim() and the  *)
(* interest parser are computed, not assumed.  Timestamps are ticks of an  *)
(* abstract clock; one tick stands for the lock's time-to-live.            *)
(*                                                                         *)
(* A $transaction is modelled as a private workspace (req[r].tx) that each *)
(* statement of the callback updates and that is published in one step at  *)
(* commit, or dropped on a fault: other requests read committed rows only. *)
(*                                                                         *)
(* Spec runs creations, regenerations and deletions from an empty store;   *)
(* SpecNoExpiry is Spec with the clock standing still; SpecSeeded runs     *)
(* regenerations against a store that holds several trips; SpecPlanner     *)
(* calls the planner once on an arbitrary pool of activities; SpecAuth     *)
(* runs logins, logouts and authenticated requests (routes/auth.routes.ts, *)
(* middleware/requireAuth.ts).                                             *)
(***************************************************************************)
EXTENDS Integers, Sequences, FiniteSets, TLC

\* ---------------------------------------------------------------- bounds
MaxTime == 2
MaxTrips == 1
MaxDays == 2
NumReqs == 2
NumSeededTrips == 2
PoolSize == 6
MaxAllocDays == 5

\* ------------------------------------------------------ program constants
LockTtl == 1
TokenTtl == 1
DailyCapacity == 8

Reqs == 1 .. NumReqs
Users == {"u1", "u2"}
Owners == {"u1"}
TripIds == 1 .. MaxTrips

\* ------------------------------------------------------------------ strings
Space == " "

RECURSIVE TrimStart(_)
TrimStart(s) ==
    IF s # <<>> /\ Head(s) = Space THEN TrimStart(Tail(s)) ELSE s

RECURSIVE TrimEnd(_)
TrimEnd(s) ==
    IF s # <<>> /\ s[Len(s)] = Space
    THEN TrimEnd(SubSeq(s, 1, Len(s) - 1))
    ELSE s

\* String.prototype.trim
Trim(s) == TrimEnd(TrimStart(s))

ToLower(c) == IF c = "C" THEN "c" ELSE IF c = "N" THEN "n" ELSE c

LowerCase(s) == [i \in 1 .. Len(s) |-> ToLower(s[i])]

\* split on commas: the sequence of the pieces between them
RECURSIVE SplitComma(_, _)
SplitComma(s, cur) ==
    IF s = <<>> THEN <<cur>>
    ELSE IF Head(s) = "," THEN <<cur>> \o SplitComma(Tail(s), <<>>)
    ELSE SplitComma(Tail(s), Append(cur, Head(s)))

\* Interest Parser: lower-cased, trimmed, non-empty tokens, as a set
ParseInterests(raw) ==
    LET parts == SplitComma(raw, <<>>)
        toks == {LowerCase(Trim(parts[i])) : i \in 1 .. Len(parts)}
    IN  toks \ {<<>>}

\* ------------------------------------------------------------------ catalog
\* Activity rows as the seed and the activities routes leave them; name is the
\* rank of the activity's name in ascending order, category the lower-case tag.
Culture == <<"c">>
Nature == <<"n">>

Seed ==
    { [id |-> 1, destination |-> "Paris", name |-> 1, category |-> Culture,
       durationHours |-> 5, priceLevel |-> 3],
      [id |-> 2, destination |-> "Paris", name |-> 3, category |-> Nature,
       durationHours |-> 3, priceLevel |-> 1],
      [id |-> 3, destination |-> "Paris", name |-> 2, category |-> Culture,
       durationHours |-> 4, priceLevel |-> 3] }

Destinations == {"Paris", "Rome"}

\* ------------------------------------------------------------------ planner
Score(a, profile) == IF a.category \in profile THEN 2 ELSE 0

\* a is placed before b in the sorted pool
Before(a, b, profile) ==
    \/ Score(a, profile) > Score(b, profile)
    \/ /\ Score(a, profile) = Score(b, profile)
       /\ \/ a.priceLevel < b.priceLevel
          \/ a.priceLevel = b.priceLevel /\ a.name < b.name

RECURSIVE SortPool(_, _)
SortPool(pool, profile) ==
    IF pool = {} THEN <<>>
    ELSE LET first == CHOOSE a \in pool :
                          \A b \in pool \ {a} : Before(a, b, profile)
         IN  <<first>> \o SortPool(pool \ {first}, profile)

DayTotal(day) ==
    LET RECURSIVE Sum(_)
        Sum(s) == IF s = <<>> THEN 0 ELSE Head(s).durationHours + Sum(Tail(s))
    IN  Sum(day)

\* mutant: the activity's own duration is left out of the capacity test
FirstFitRunningTotalOnly(days, a) ==
    LET fits == {d \in 1 .. Len(days) : DayTotal(days[d]) <= DailyCapacity}
    IN  IF fits = {} THEN 0
        ELSE CHOOSE d \in fits : \A e \in fits : d <= e

\* first day, in day-number order, that still has room for a; 0 when none
FirstFit(days, a) ==
    LET fits == {d \in 1 .. Len(days) :
                    DayTotal(days[d]) + a.durationHours <= DailyCapacity}
    IN  IF fits = {} THEN 0
        ELSE CHOOSE d \in fits : \A e \in fits : d <= e

\* mutant: no "already used" set, the activity goes to every day with room
RECURSIVE PlaceInEveryDay(_, _)
PlaceInEveryDay(sorted, days) ==
    IF sorted = <<>> THEN days
    ELSE LET a == Head(sorted)
         IN  PlaceInEveryDay(Tail(sorted),
                 [d \in 1 .. Len(days) |->
                     IF DayTotal(days[d]) + a.durationHours <= DailyCapacity
                     THEN Append(days[d], a)
                     ELSE days[d]])

RECURSIVE Place(_, _)
Place(sorted, days) ==
    IF sorted = <<>> THEN days
    ELSE LET a == Head(sorted)
             d == FirstFit(days, a)
         IN  IF d = 0 THEN Place(Tail(sorted), days)
             ELSE Place(Tail(sorted),
                        [days EXCEPT ![d] = Append(days[d], a)])

generateItinerary(activities, daysCount, interests) ==
    LET profile == ParseInterests(interests)
        days == Place(SortPool(activities, profile),
                      [d \in 1 .. daysCount |-> <<>>])
        empty == {d \in 1 .. daysCount : days[d] = <<>>}
    IN  [days |-> days,
         warning |-> IF empty = {} THEN "None" ELSE "InsufficientActivities"]

\* -------------------------------------------------------------------- state
VARIABLES
    trips,        \* Trip rows by id: NoTrip or a row
    dayPlans,     \* committed DayPlan rows of each trip id, in insertion order
    nextTripId,   \* the Trip id sequence
    clock,        \* wall clock
    req,          \* per request: position and locals of its handler
    alloc,        \* one call of the planner: its arguments and what it returned
    auth          \* issued tokens, RevokedToken rows and the auth requests

vars == <<trips, dayPlans, nextTripId, clock, req, alloc, auth>>

NoTrip == [exists |-> FALSE]
NoLock == <<>>
Undefined == [type |-> "undefined", val |-> <<>>]
NotAString == [type |-> "number", val |-> <<>>]
Str(s) == [type |-> "string", val |-> s]

NoPlan == [days |-> <<>>, warning |-> "None"]
NoTx == [kept |-> <<>>, dayPlans |-> <<>>, interests |-> <<>>, trip |-> <<>>]

NoAlloc ==
    [activities |-> {}, daysCount |-> 0, interests |-> <<>>,
     plan |-> NoPlan, rows |-> <<>>, returned |-> FALSE]

NoToken == [userId |-> "none", iat |-> 0, exp |-> 0]
IdleAuthReq == [pc |-> "idle", kind |-> "none", token |-> NoToken, status |-> 0]

\* no token issued, no RevokedToken row, no request
NoAuth ==
    [issued |-> {}, revokedTokens |-> {}, loggedOut |-> {},
     sess |-> [r \in Reqs |-> IdleAuthReq]]

IdleReq ==
    [pc |-> "idle", kind |-> "none", userId |-> "u1", tripId |-> 0,
     incomingInterests |-> Undefined, now |-> 0, lockUntil |-> 0,
     base |-> NoTrip, effectiveInterests |-> <<>>, plan |-> NoPlan,
     tx |-> NoTx, status |-> 0, warning |-> "None",
     acquired |-> FALSE, rolledBack |-> FALSE]

Init ==
    /\ trips = [t \in TripIds |-> NoTrip]
    /\ dayPlans = [t \in TripIds |-> <<>>]
    /\ nextTripId = 1
    /\ clock = 0
    /\ req = [r \in Reqs |-> IdleReq]
    /\ alloc = NoAlloc
    /\ auth = NoAuth

\* prisma.activity.findMany({ where: { destination } })
FindActivities(destination) == {a \in Seed : a.destination = destination}

\* ------------------------------------------------------------------ inputs
DaysLimit == 30
DaysInputs == 0 .. MaxDays
CreateInterests == {<<>>, <<"c">>}
OverrideInputs ==
    {Undefined, NotAString, Str(<<" ">>), Str(<<" ", "N", " ">>), Str(<<"c">>)}
TripIdInputs == {0} \cup DOMAIN trips

\* ----------------------------------------------------------------- helpers
DayPlanRow(d) == [dayNumber |-> d, plannedActivities |-> {}]

\* mutant: the loop index stored as it is, 0-based
PlannedRowZeroBased(activityId, i) == [activityId |-> activityId, orderIndex |-> i]

PlannedRow(activityId, i) == [activityId |-> activityId, orderIndex |-> i + 1]

\* plan.days[d - 1] ?? []
DayItems(plan, d) == IF d <= Len(plan.days) THEN plan.days[d] ELSE <<>>

\* for (d = 1; d <= daysCount; d++) tx.dayPlan.create({ tripId, dayNumber: d })
NewDayPlans(daysCount) == [d \in 1 .. daysCount |-> DayPlanRow(d)]

\* mutant: every DayPlan receives the items of plan.days[0]
WithPlannedFirstDay(newDayPlans, plan, daysCount) ==
    [k \in 1 .. Len(newDayPlans) |->
        IF k <= daysCount
        THEN [newDayPlans[k] EXCEPT !.plannedActivities =
                 {PlannedRow(DayItems(plan, 1)[i + 1], i) :
                     i \in 0 .. Len(DayItems(plan, 1)) - 1}]
        ELSE newDayPlans[k]]

\* the nested loops over the days and their items: dp = newDayPlans[d - 1]
\* receives one PlannedActivity row for each item of plan.days[d - 1]
WithPlanned(newDayPlans, plan, daysCount) ==
    [k \in 1 .. Len(newDayPlans) |->
        IF k <= daysCount
        THEN [newDayPlans[k] EXCEPT !.plannedActivities =
                 {PlannedRow(DayItems(plan, k)[i + 1], i) :
                     i \in 0 .. Len(DayItems(plan, k)) - 1}]
        ELSE newDayPlans[k]]

\* the ids of the activities of each day, which is all the handlers read
PlanOf(p) ==
    [days |-> [d \in 1 .. Len(p.days) |->
                  [k \in 1 .. Len(p.days[d]) |-> p.days[d][k].id]],
     warning |-> p.warning]

CreateTxPcs == {"cDayPlans", "cPlanned", "cCommit"}
RegenTxPcs == {"txDelete", "txInterests", "txDayPlans", "txPlanned", "txCommit"}

InTx(r) == req[r].pc \in CreateTxPcs \cup RegenTxPcs

\* the handler has returned (or died): its slot serves the next request
Free(r) == req[r].pc \in {"idle", "done", "crashed"}

\* requests are interchangeable: a new one takes the lowest free slot
CanBegin(r) == Free(r) /\ \A o \in Reqs : o < r => ~Free(o)

\* what is left of a request once its response is decided: the locals of the
\* try block are out of scope (lockUntil is declared before it)
Responded(q, pc, status, warning) ==
    [IdleReq EXCEPT !.pc = pc, !.kind = q.kind, !.userId = q.userId,
                    !.tripId = q.tripId, !.acquired = q.acquired,
                    !.lockUntil = q.lockUntil,
                    !.status = status, !.warning = warning]

\* the handler has returned: the response is all that is left of the request
Returned(q) ==
    [IdleReq EXCEPT !.pc = "done", !.kind = q.kind, !.status = q.status,
                    !.acquired = q.acquired, !.rolledBack = q.rolledBack]

\* the catch block: an open transaction has been rolled back
Caught(q, pc, inTx) ==
    [Responded(q, pc, 500, "None") EXCEPT !.rolledBack = inTx]

\* ------------------------------------------------------------------- clock
Tick ==
    /\ clock < MaxTime
    /\ clock' = clock + 1
    /\ UNCHANGED <<trips, dayPlans, nextTripId, req, alloc, auth>>

\* ------------------------------------------------------- POST / (create)
ValidCreate(days, interests) ==
    /\ days >= 1
    /\ days <= DaysLimit
    /\ interests # <<>>

BeginCreate(r) ==
    /\ CanBegin(r)
    /\ \E user \in Owners, destination \in Destinations,
          days \in DaysInputs, interests \in CreateInterests :
          LET q == [IdleReq EXCEPT !.kind = "create", !.userId = user]
          IN  req' = [req EXCEPT ![r] =
                        IF ValidCreate(days, interests)
                        THEN [q EXCEPT
                                !.pc = "cFetch",
                                !.base = [exists |-> TRUE, userId |-> user,
                                          destination |-> destination,
                                          daysCount |-> days,
                                          interests |-> interests,
                                          regenLockUntil |-> NoLock]]
                        ELSE Returned(Responded(q, "done", 400, "None"))]
    /\ UNCHANGED <<trips, dayPlans, nextTripId, clock, alloc, auth>>

CreateFetch(r) ==
    /\ req[r].pc = "cFetch"
    /\ LET b == req[r].base
           plan == generateItinerary(FindActivities(b.destination),
                                     b.daysCount, b.interests)
       IN  req' = [req EXCEPT ![r].pc = "cTrip", ![r].plan = PlanOf(plan)]
    /\ UNCHANGED <<trips, dayPlans, nextTripId, clock, alloc, auth>>

\* mutant: the Trip row is created outside the transaction
CreateTxTripDirect(r) ==
    /\ req[r].pc = "cTrip"
    /\ nextTripId <= MaxTrips
    /\ nextTripId' = nextTripId + 1
    /\ trips' = [trips EXCEPT ![nextTripId] = req[r].base]
    /\ req' = [req EXCEPT ![r].pc = "cDayPlans",
                          ![r].tripId = nextTripId,
                          ![r].tx = [NoTx EXCEPT !.trip = <<req[r].base>>]]
    /\ UNCHANGED <<dayPlans, clock, alloc, auth>>

CreateTxTrip(r) ==
    /\ req[r].pc = "cTrip"
    /\ nextTripId <= MaxTrips
    /\ nextTripId' = nextTripId + 1
    /\ req' = [req EXCEPT ![r].pc = "cDayPlans",
                          ![r].tripId = nextTripId,
                          ![r].tx = [NoTx EXCEPT !.trip = <<req[r].base>>]]
    /\ UNCHANGED <<trips, dayPlans, clock, alloc, auth>>

CreateTxDayPlans(r) ==
    /\ req[r].pc = "cDayPlans"
    /\ req' = [req EXCEPT ![r].tx.dayPlans = NewDayPlans(req[r].base.daysCount),
                          ![r].pc = "cPlanned"]
    /\ UNCHANGED <<trips, dayPlans, nextTripId, clock, alloc, auth>>

CreateTxPlanned(r) ==
    /\ req[r].pc = "cPlanned"
    /\ req' = [req EXCEPT ![r].tx.dayPlans =
                              WithPlanned(@, req[r].plan, req[r].base.daysCount),
                          ![r].pc = "cCommit"]
    /\ UNCHANGED <<trips, dayPlans, nextTripId, clock, alloc, auth>>

CreateTxCommit(r) ==
    /\ req[r].pc = "cCommit"
    /\ trips' = [trips EXCEPT ![req[r].tripId] = req[r].tx.trip[1]]
    /\ dayPlans' = [dayPlans EXCEPT ![req[r].tripId] = req[r].tx.dayPlans]
    /\ req' = [req EXCEPT ![r] =
                 Returned(Responded(@, "done", 201, @.plan.warning))]
    /\ UNCHANGED <<nextTripId, clock, alloc, auth>>

\* a fault of the store in the fetch or anywhere in the transaction: the
\* transaction is rolled back and the catch block answers 500
CreateFault(r) ==
    /\ req[r].pc \in {"cFetch", "cTrip"} \cup CreateTxPcs
    /\ req' = [req EXCEPT ![r] = Returned(Caught(@, "done", @.pc \in CreateTxPcs))]
    /\ UNCHANGED <<trips, dayPlans, nextTripId, clock, alloc, auth>>

\* ------------------------------------------- POST /:id/regenerate
\* the selected columns that the handler reads afterwards
BaseOf(row) == IF row.exists THEN [row EXCEPT !.regenLockUntil = NoLock] ELSE row

\* mutant: the time-to-live is not added
LockUntilNoTtl(now) == now

\* new Date(Date.now() + lockTtlMs)
LockUntil(now) == now + LockTtl

\* the clock readings and the load of the trip row
BeginRegen(r) ==
    /\ CanBegin(r)
    /\ \E user \in Users, tripId \in TripIdInputs, incoming \in OverrideInputs :
          LET q == [IdleReq EXCEPT !.kind = "regen", !.userId = user,
                                   !.tripId = tripId]
              base == BaseOf(trips[tripId])
          IN  req' = [req EXCEPT ![r] =
                        IF tripId <= 0
                        THEN Returned(Responded(q, "done", 404, "None"))
                        ELSE IF ~base.exists
                        THEN Responded(q, "finally", 404, "None")
                        ELSE IF base.userId # user
                        THEN Responded(q, "finally", 403, "None")
                        ELSE [q EXCEPT
                                !.pc = "acquire", !.incomingInterests = incoming,
                                !.now = clock, !.lockUntil = LockUntil(clock),
                                !.base = base]]
    /\ UNCHANGED <<trips, dayPlans, nextTripId, clock, alloc, auth>>

\* mutant: lte in place of lt
LockFreeLte(lock, now) == lock = NoLock \/ lock[1] <= now

\* OR: [{ regenLockUntil: null }, { regenLockUntil: { lt: now } }]
LockFree(lock, now) == lock = NoLock \/ lock[1] < now

\* the where clause of the conditional lock write
LockWhere(row, userId, now) ==
    /\ row.exists
    /\ row.userId = userId
    /\ LockFree(row.regenLockUntil, now)

\* mutant: a white-space-only string passes the validation
ValidOverrideNoTrim(incoming) ==
    incoming = Undefined \/ (incoming.type = "string" /\ incoming.val # <<>>)

ValidOverride(incoming) ==
    incoming = Undefined \/ (incoming.type = "string" /\ Trim(incoming.val) # <<>>)

EffectiveInterests(incoming, base) ==
    IF incoming.type = "string" /\ Trim(incoming.val) # <<>>
    THEN Trim(incoming.val)
    ELSE base.interests

RegenAcquire(r) ==
    /\ req[r].pc = "acquire"
    /\ LET q == req[r]
           hit == LockWhere(trips[q.tripId], q.userId, q.now)
           got == [q EXCEPT !.acquired = TRUE]
       IN  /\ trips' = IF hit
                       THEN [trips EXCEPT ![q.tripId].regenLockUntil = <<q.lockUntil>>]
                       ELSE trips
           /\ req' = [req EXCEPT ![r] =
                        IF ~hit THEN Responded(q, "finally", 409, "None")
                        ELSE IF ~ValidOverride(q.incomingInterests)
                        THEN Responded(got, "finally", 400, "None")
                        ELSE [got EXCEPT
                                !.effectiveInterests =
                                    EffectiveInterests(q.incomingInterests, q.base),
                                !.pc = "fetch"]]
    /\ UNCHANGED <<dayPlans, nextTripId, clock, alloc, auth>>

EmptyPlan(daysCount) ==
    [days |-> [d \in 1 .. daysCount |-> <<>>], warning |-> "NoActivitiesFound"]

\* mutant: no fallback for an empty catalog
RegenPlanNoFallback(found, daysCount, interests) ==
    generateItinerary(found, daysCount, interests)

RegenPlan(found, daysCount, interests) ==
    IF Cardinality(found) = 0
    THEN EmptyPlan(daysCount)
    ELSE generateItinerary(found, daysCount, interests)

RegenFetch(r) ==
    /\ req[r].pc = "fetch"
    /\ LET q == req[r]
           plan == RegenPlan(FindActivities(q.base.destination),
                             q.base.daysCount, q.effectiveInterests)
       IN  req' = [req EXCEPT ![r].plan = PlanOf(plan), ![r].pc = "txDelete",
                              ![r].now = 0]
    /\ UNCHANGED <<trips, dayPlans, nextTripId, clock, alloc, auth>>

\* mutant: the old rows are not deleted
KeepOldPlan(existingDayPlans) == existingDayPlans

\* findMany, then plannedActivity.deleteMany and dayPlan.deleteMany when
\* rows were found: the rows of the trip that the transaction keeps
DeleteOldPlan(existingDayPlans) ==
    IF Len(existingDayPlans) > 0 THEN <<>> ELSE existingDayPlans

\* mutant: the old rows are deleted outside the transaction
RegenTxDeleteDirect(r) ==
    /\ req[r].pc = "txDelete"
    /\ LET q == req[r]
       IN  /\ dayPlans' = [dayPlans EXCEPT ![q.tripId] = DeleteOldPlan(@)]
           /\ req' = [req EXCEPT
                        ![r].tx = NoTx,
                        ![r].pc = IF q.effectiveInterests # q.base.interests
                                  THEN "txInterests" ELSE "txDayPlans"]
    /\ UNCHANGED <<trips, nextTripId, clock, alloc, auth>>

RegenTxDelete(r) ==
    /\ req[r].pc = "txDelete"
    /\ LET q == req[r]
       IN  req' = [req EXCEPT
                     ![r].tx = [NoTx EXCEPT !.kept = DeleteOldPlan(dayPlans[q.tripId])],
                     ![r].pc = IF q.effectiveInterests # q.base.interests
                               THEN "txInterests" ELSE "txDayPlans"]
    /\ UNCHANGED <<trips, dayPlans, nextTripId, clock, alloc, auth>>

\* tx.trip.update({ data: { interests } }); a missing row throws
RegenTxInterests(r) ==
    /\ req[r].pc = "txInterests"
    /\ LET q == req[r]
       IN  req' = [req EXCEPT ![r] =
                     IF trips[q.tripId].exists
                     THEN [q EXCEPT !.tx.interests = <<q.effectiveInterests>>,
                                    !.pc = "txDayPlans"]
                     ELSE Caught(q, "finally", TRUE)]
    /\ UNCHANGED <<trips, dayPlans, nextTripId, clock, alloc, auth>>

\* DayPlan.tripId references Trip.id: a DayPlan row needs its Trip row
TripForeignKey(tripId) == trips[tripId].exists

\* tx.dayPlan.create; the foreign key to Trip throws when the trip is gone
RegenTxDayPlans(r) ==
    /\ req[r].pc = "txDayPlans"
    /\ LET q == req[r]
       IN  req' = [req EXCEPT ![r] =
                     IF TripForeignKey(q.tripId)
                     THEN [q EXCEPT !.tx.dayPlans = NewDayPlans(q.base.daysCount),
                                    !.pc = "txPlanned"]
                     ELSE Caught(q, "finally", TRUE)]
    /\ UNCHANGED <<trips, dayPlans, nextTripId, clock, alloc, auth>>

RegenTxPlanned(r) ==
    /\ req[r].pc = "txPlanned"
    /\ req' = [req EXCEPT ![r].tx.dayPlans =
                              WithPlanned(@, req[r].plan, req[r].base.daysCount),
                          ![r].pc = "txCommit"]
    /\ UNCHANGED <<trips, dayPlans, nextTripId, clock, alloc, auth>>

RegenTxCommit(r) ==
    /\ req[r].pc = "txCommit"
    /\ LET q == req[r]
       IN  /\ dayPlans' = [dayPlans EXCEPT ![q.tripId] = q.tx.kept \o q.tx.dayPlans]
           /\ trips' = IF q.tx.interests # <<>>
                       THEN [trips EXCEPT ![q.tripId].interests = q.tx.interests[1]]
                       ELSE trips
           /\ req' = [req EXCEPT ![r] = Responded(q, "finally", 200, q.plan.warning)]
    /\ UNCHANGED <<nextTripId, clock, alloc, auth>>

\* mutant: the catch block returns without the unlock of the finally block
RegenFaultNoFinally(r) ==
    /\ req[r].pc \in {"acquire", "fetch"} \cup RegenTxPcs
    /\ req' = [req EXCEPT ![r] = Returned(Caught(@, "done", @.pc \in RegenTxPcs))]
    /\ UNCHANGED <<trips, dayPlans, nextTripId, clock, alloc, auth>>

\* a fault of the store in any awaited call of the try block: the transaction,
\* if open, is rolled back and the catch block answers 500
RegenFault(r) ==
    /\ req[r].pc \in {"acquire", "fetch"} \cup RegenTxPcs
    /\ req' = [req EXCEPT ![r] = Caught(@, "finally", @.pc \in RegenTxPcs)]
    /\ UNCHANGED <<trips, dayPlans, nextTripId, clock, alloc, auth>>

\* updateMany({ where: { id, userId }, data: { regenLockUntil: null } })
UnlockRow(row, userId) ==
    IF row.exists /\ row.userId = userId
    THEN [row EXCEPT !.regenLockUntil = NoLock]
    ELSE row

\* mutant: the where clause of the unlock lacks the trip id
RegenUnlockAnyTrip(r) ==
    /\ req[r].pc = "finally"
    /\ trips' = [t \in DOMAIN trips |-> UnlockRow(trips[t], req[r].userId)]
    /\ req' = [req EXCEPT ![r] = Returned(@)]
    /\ UNCHANGED <<dayPlans, nextTripId, clock, alloc, auth>>

\* finally: best-effort unlock
RegenUnlock(r) ==
    /\ req[r].pc = "finally"
    /\ trips' = [trips EXCEPT ![req[r].tripId] = UnlockRow(@, req[r].userId)]
    /\ req' = [req EXCEPT ![r] = Returned(@)]
    /\ UNCHANGED <<dayPlans, nextTripId, clock, alloc, auth>>

\* the process dies, or the request hangs for good, before its finally block
\* has run: an open transaction is rolled back and the lock is not released
Crash(r) ==
    /\ req[r].kind = "regen"
    /\ ~Free(r)
    /\ req' = [req EXCEPT ![r] =
                 [Responded(@, "crashed", 0, "None") EXCEPT
                    !.userId = IdleReq.userId]]
    /\ UNCHANGED <<trips, dayPlans, nextTripId, clock, alloc, auth>>

\* ------------------------------------------------------------ DELETE /:id
\* a transaction that wrote a row referencing the trip (or the trip row
\* itself) holds a lock on the trip row until it ends: the delete waits
HoldsTripRow(r, t) ==
    /\ req[r].pc \in RegenTxPcs
    /\ req[r].tripId = t
    /\ (req[r].tx.dayPlans # <<>> \/ req[r].tx.interests # <<>>)

\* the relation's delete rule: the DayPlan rows of a deleted Trip, and their
\* PlannedActivity rows, go with it
OnDeleteCascade(existingDayPlans) == <<>>

\* mutant: the Trip row alone is deleted
DeleteTripNoCascade ==
    \E user \in Users, t \in TripIds :
        /\ trips[t].exists
        /\ trips[t].userId = user
        /\ \A r \in Reqs : ~HoldsTripRow(r, t)
        /\ trips' = [trips EXCEPT ![t] = NoTrip]
        /\ UNCHANGED <<dayPlans, nextTripId, clock, req, alloc, auth>>

DeleteTrip ==
    \E user \in Users, t \in TripIds :
        /\ trips[t].exists
        /\ trips[t].userId = user
        /\ \A r \in Reqs : ~HoldsTripRow(r, t)
        /\ trips' = [trips EXCEPT ![t] = NoTrip]
        /\ dayPlans' = [dayPlans EXCEPT ![t] = OnDeleteCascade(@)]
        /\ UNCHANGED <<nextTripId, clock, req, alloc, auth>>

\* ------------------------------------------------------------ specification
Step(r) ==
    \/ BeginCreate(r)
    \/ CreateFetch(r)
    \/ CreateTxTrip(r)
    \/ CreateTxDayPlans(r)
    \/ CreateTxPlanned(r)
    \/ CreateTxCommit(r)
    \/ CreateFault(r)
    \/ BeginRegen(r)
    \/ RegenAcquire(r)
    \/ RegenFetch(r)
    \/ RegenTxDelete(r)
    \/ RegenTxInterests(r)
    \/ RegenTxDayPlans(r)
    \/ RegenTxPlanned(r)
    \/ RegenTxCommit(r)
    \/ RegenFault(r)
    \/ RegenUnlock(r)
    \/ Crash(r)

Next ==
    \/ Tick
    \/ DeleteTrip
    \/ \E r \in Reqs : Step(r)

Spec == Init /\ [][Next]_vars

\* the same requests while the clock stands still: no lock outlives its TTL
NextNoExpiry ==
    \/ DeleteTrip
    \/ \E r \in Reqs : Step(r)

SpecNoExpiry == Init /\ [][NextNoExpiry]_vars

\* regenerate requests against a store that already holds several trips of
\* one owner, each with the plan its creation committed
SeededTripIds == 1 .. NumSeededTrips

SeededTrip(t) ==
    [exists |-> TRUE, userId |-> "u1", destination |-> "Paris",
     daysCount |-> IF t = 1 THEN MaxDays ELSE 1,
     interests |-> <<"c">>, regenLockUntil |-> NoLock]

SeededDayPlans(t) ==
    LET b == SeededTrip(t)
    IN  WithPlanned(NewDayPlans(b.daysCount),
                    PlanOf(generateItinerary(FindActivities(b.destination),
                                             b.daysCount, b.interests)),
                    b.daysCount)

InitSeeded ==
    /\ trips = [t \in SeededTripIds |-> SeededTrip(t)]
    /\ dayPlans = [t \in SeededTripIds |-> SeededDayPlans(t)]
    /\ nextTripId = NumSeededTrips + 1
    /\ clock = 0
    /\ req = [r \in Reqs |-> IdleReq]
    /\ alloc = NoAlloc
    /\ auth = NoAuth

RegenStep(r) ==
    \/ BeginRegen(r)
    \/ RegenAcquire(r)
    \/ RegenFetch(r)
    \/ RegenTxDelete(r)
    \/ RegenTxInterests(r)
    \/ RegenTxDayPlans(r)
    \/ RegenTxPlanned(r)
    \/ RegenTxCommit(r)
    \/ RegenFault(r)
    \/ RegenUnlock(r)

NextSeeded ==
    \/ Tick
    \/ \E r \in Reqs : RegenStep(r)

SpecSeeded == InitSeeded /\ [][NextSeeded]_vars

\* ------------------------------------------------- the planner on its own
\* activity rows of one destination: durations around the daily capacity,
\* both categories, ties in price level, distinct names
PoolDurations == <<9, 3, 3, 5, 8, 4, 2>>
PoolPrices == <<1, 1, 2, 2, 1, 3, 1>>

PoolActivity(i) ==
    [id |-> i, destination |-> "Paris", name |-> PoolSize + 1 - i,
     category |-> IF i % 2 = 1 THEN Culture ELSE Nature,
     durationHours |-> PoolDurations[((i - 1) % Len(PoolDurations)) + 1],
     priceLevel |-> PoolPrices[((i - 1) % Len(PoolPrices)) + 1]]

Pool == {PoolActivity(i) : i \in 1 .. PoolSize}

InterestInputs == {<<>>, <<"c">>, <<" ", "N", ",", "c">>}

InitPlanner ==
    /\ trips = [t \in TripIds |-> NoTrip]
    /\ dayPlans = [t \in TripIds |-> <<>>]
    /\ nextTripId = 1
    /\ clock = 0
    /\ req = [r \in Reqs |-> IdleReq]
    /\ \E activities \in SUBSET Pool, daysCount \in 1 .. MaxAllocDays,
          interests \in InterestInputs :
          alloc = [NoAlloc EXCEPT !.activities = activities,
                                  !.daysCount = daysCount,
                                  !.interests = interests]
    /\ auth = NoAuth

\* plan = generateItinerary({ activities, daysCount, interests }), and the
\* rows that the loops of the transaction create from it
Allocate ==
    /\ ~alloc.returned
    /\ LET plan == generateItinerary(alloc.activities, alloc.daysCount,
                                     alloc.interests)
       IN  alloc' = [alloc EXCEPT
                       !.plan = plan,
                       !.rows = WithPlanned(NewDayPlans(alloc.daysCount),
                                            PlanOf(plan), alloc.daysCount),
                       !.returned = TRUE]
    /\ UNCHANGED <<trips, dayPlans, nextTripId, clock, req, auth>>

SpecPlanner == InitPlanner /\ [][Allocate]_vars

\* ------------------------------------------------ tokens and their revocation
\* In SpecAuth one tick of the clock stands for the lifetime of a token.
AuthKinds == {"me", "logout"}

\* jwt.sign({ userId, role }, secret, { expiresIn: "7d" }): the token is a
\* function of its payload, and two tokens signed for one user at one clock
\* reading are the same string
SignToken(userId, now) == [userId |-> userId, iat |-> now, exp |-> now + TokenTtl]

\* jwt.verify throws on a token whose exp is not later than the clock reading
JwtExpired(token, now) == now >= token.exp

\* the digest of the token string: the same for the same string, different
\* for different strings
hashToken(token) == <<"sha", token.userId, token.iat>>

\* prisma.revokedToken.findUnique({ where: { tokenHash } })
FindRevoked(rows, tokenHash) == {row \in rows : row.tokenHash = tokenHash}

\* mutant: gt in place of lt
PurgeExpiredGt(rows, now) == {row \in rows : ~(row.expiresAt > now)}

\* deleteMany({ where: { expiresAt: { lt: new Date() } } }): the rows left
PurgeExpired(rows, now) == {row \in rows : ~(row.expiresAt < now)}

\* upsert({ where: { tokenHash }, update: { expiresAt }, create: ... })
Upsert(rows, tokenHash, expiresAt) ==
    {row \in rows : row.tokenHash # tokenHash}
        \cup {[tokenHash |-> tokenHash, expiresAt |-> expiresAt]}

AuthFree(r) == auth.sess[r].pc \in {"idle", "done"}

CanBeginAuth(r) == AuthFree(r) /\ \A o \in Reqs : o < r => ~AuthFree(o)

\* POST /login: a token for the user, or 401 on bad credentials
Login ==
    /\ \E user \in Users, credentialsOk \in BOOLEAN :
          auth' = IF credentialsOk
                  THEN [auth EXCEPT !.issued = @ \cup {SignToken(user, clock)}]
                  ELSE auth
    /\ UNCHANGED <<trips, dayPlans, nextTripId, clock, req, alloc>>

\* requireAuth in front of GET /me or POST /logout: 401 when jwt.verify or the
\* lookup throws or a RevokedToken row is found; GET /me then answers 200
RequireAuth(r) ==
    /\ CanBeginAuth(r)
    /\ \E kind \in AuthKinds, token \in auth.issued, fault \in BOOLEAN :
          LET revoked == FindRevoked(auth.revokedTokens, hashToken(token))
              q == [IdleAuthReq EXCEPT !.kind = kind, !.token = token]
          IN  auth' = [auth EXCEPT !.sess[r] =
                         IF fault \/ JwtExpired(token, clock) \/ revoked # {}
                         THEN [q EXCEPT !.pc = "done", !.status = 401]
                         ELSE IF kind = "me"
                         THEN [q EXCEPT !.pc = "done", !.status = 200]
                         ELSE [q EXCEPT !.pc = "purge"]]
    /\ UNCHANGED <<trips, dayPlans, nextTripId, clock, req, alloc>>

\* POST /logout: optional cleanup
LogoutPurge(r) ==
    /\ auth.sess[r].pc = "purge"
    /\ auth' = [auth EXCEPT !.revokedTokens = PurgeExpired(@, clock),
                            !.sess[r].pc = "upsert"]
    /\ UNCHANGED <<trips, dayPlans, nextTripId, clock, req, alloc>>

\* POST /logout: idempotent insert, then 200
LogoutUpsert(r) ==
    /\ auth.sess[r].pc = "upsert"
    /\ LET token == auth.sess[r].token
       IN  auth' = [auth EXCEPT
                      !.revokedTokens = Upsert(@, hashToken(token), token.exp),
                      !.loggedOut = @ \cup {token},
                      !.sess[r].pc = "done",
                      !.sess[r].status = 200]
    /\ UNCHANGED <<trips, dayPlans, nextTripId, clock, req, alloc>>

\* POST /logout: catch
LogoutFault(r) ==
    /\ auth.sess[r].pc \in {"purge", "upsert"}
    /\ auth' = [auth EXCEPT !.sess[r].pc = "done", !.sess[r].status = 500]
    /\ UNCHANGED <<trips, dayPlans, nextTripId, clock, req, alloc>>

AuthStep(r) ==
    \/ RequireAuth(r)
    \/ LogoutPurge(r)
    \/ LogoutUpsert(r)
    \/ LogoutFault(r)

NextAuth ==
    \/ Tick
    \/ Login
    \/ \E r \in Reqs : AuthStep(r)

SpecAuth == Init /\ [][NextAuth]_vars

TypeOK ==
    /\ clock \in 0 .. MaxTime
    /\ nextTripId \in 1 .. MaxTrips + 1

\* ------------------------------------------------------------------ claims
TripOf(r) == req[r].tripId

\* r has acquired the lock and its delete-and-recreate transaction has not ended
InFlight(r) ==
    /\ req[r].kind = "regen"
    /\ req[r].acquired
    /\ req[r].pc \in {"fetch"} \cup RegenTxPcs

\* r takes a step
Moves(r) == req'[r] # req[r]

\* r's conditional lock write is evaluated in this step
EvaluatesAcquire(r) ==
    /\ req[r].pc = "acquire"
    /\ req'[r].pc \in {"fetch", "finally"}
    /\ req'[r].status # 500

\* the plan and the interests of every trip, without the lock-expiry field
Plans == [t \in TripIds |->
            [exists |-> trips[t].exists,
             interests |-> IF trips[t].exists THEN trips[t].interests ELSE <<>>,
             dayPlans |-> dayPlans[t]]]

\* C1: for every trip, at most one regenerate request at a time is between
\* its successful lock acquisition and the end of its transaction.
C1_OneRegenerationInFlight ==
    \A t \in TripIds :
        Cardinality({r \in Reqs : InFlight(r) /\ TripOf(r) = t}) <= 1

\* C2: a conditional lock write evaluated while the lock expiry is a timestamp
\* not earlier than the request's clock reading writes nothing and ends the
\* request with 409; a request answered 409 never holds a transaction and no
\* step of it changes the plan or the interests of a trip.
C2_HeldLockRejects ==
    [][\A r \in Reqs :
          /\ ( /\ EvaluatesAcquire(r)
               /\ trips[TripOf(r)].exists
               /\ trips[TripOf(r)].regenLockUntil # NoLock
               /\ trips[TripOf(r)].regenLockUntil[1] >= req[r].now )
             => /\ trips' = trips
                /\ req'[r].status = 409
                /\ req'[r].pc = "finally"
                /\ ~req'[r].acquired
          /\ req'[r].status = 409
             => /\ req'[r].pc \in {"finally", "done"}
                /\ req'[r].tx = NoTx
          /\ (req[r].status = 409 /\ Moves(r)) => Plans' = Plans]_vars

C2_Witness ==
    \E r, h \in Reqs :
        /\ r # h
        /\ req[r].pc = "finally"
        /\ req[r].status = 409
        /\ InFlight(h)
        /\ TripOf(h) = TripOf(r)
        /\ trips[TripOf(r)].regenLockUntil # NoLock

\* C3: no step of a regenerate request that was answered 409, its cleanup
\* step included, changes the trip: lock expiry, interests and DayPlan rows
\* stay as they were when its conditional write was evaluated.
C3_RejectedLeavesTripLocked ==
    [][\A r \in Reqs :
          /\ (EvaluatesAcquire(r) /\ req'[r].status = 409)
             => (trips' = trips /\ dayPlans' = dayPlans)
          /\ (req[r].kind = "regen" /\ req[r].status = 409 /\ Moves(r))
             => (trips' = trips /\ dayPlans' = dayPlans)]_vars

C5_AcquireRule ==
    [][\A r \in Reqs :
          (EvaluatesAcquire(r) /\ trips[TripOf(r)].exists)
          => LET lock == trips[TripOf(r)].regenLockUntil
                 free == lock = NoLock \/ lock[1] < req[r].now
             IN  /\ req'[r].acquired <=> free
                 /\ req'[r].status = 409 <=> ~free
                 /\ free => trips'[TripOf(r)].regenLockUntil
                                = <<req[r].now + LockTtl>>
                 /\ ~free => trips' = trips]_vars

C5_Witness ==
    \E r, h \in Reqs :
        /\ r # h
        /\ req[h].pc = "crashed"
        /\ req[h].acquired
        /\ req[h].lockUntil > 0
        /\ InFlight(r)
        /\ req[r].pc = "fetch"
        /\ TripOf(h) = TripOf(r)
        /\ req[h].lockUntil < req[r].now
        /\ trips[TripOf(r)].regenLockUntil = <<req[r].lockUntil>>

\* C6: only the commit of its transaction lets a regenerate request change a
\* plan or an interest string: every other step of a request that acquired
\* the lock, a fault at any statement of the transaction included, leaves
\* the DayPlan and PlannedActivity rows and the interests of every trip as
\* they were.
C6_FailedTxLeavesPlan ==
    [][\A r \in Reqs :
          ( /\ req[r].kind = "regen"
            /\ req[r].acquired
            /\ Moves(r)
            /\ ~(req[r].pc = "txCommit" /\ req'[r].status = 200) )
          => Plans' = Plans]_vars

C6_Witness ==
    \E r \in Reqs :
        /\ req[r].kind = "regen"
        /\ req[r].pc = "finally"
        /\ req[r].status = 500
        /\ req[r].rolledBack
        /\ trips[TripOf(r)].exists
        /\ \E k \in 1 .. Len(dayPlans[TripOf(r)]) :
              dayPlans[TripOf(r)][k].plannedActivities # {}

\* C7: a create request changes the store in its commit step only, which
\* adds the Trip row together with its daysCount DayPlan rows and all their
\* PlannedActivity rows; a failed creation leaves nothing, and no DayPlan row
\* exists without its Trip.
C7_CreateAtomic ==
    [][/\ \A r \in Reqs :
             (req[r].kind = "create" /\ Moves(r))
             => IF req[r].pc = "cCommit" /\ req'[r].status = 201
                THEN LET t == TripOf(r)
                         n == req[r].base.daysCount
                         rows == dayPlans'[t]
                     IN  /\ ~trips[t].exists
                         /\ trips'[t].exists
                         /\ trips'[t].daysCount = n
                         /\ Len(rows) = n
                         /\ \A d \in 1 .. n :
                               /\ rows[d].dayNumber = d
                               /\ Cardinality(rows[d].plannedActivities)
                                      = Len(req[r].plan.days[d])
                         /\ \A o \in TripIds \ {t} :
                               trips'[o] = trips[o] /\ dayPlans'[o] = dayPlans[o]
                ELSE trips' = trips /\ dayPlans' = dayPlans
       /\ \A t \in TripIds : ~trips'[t].exists => dayPlans'[t] = <<>>]_vars

C7_Witness ==
    /\ \E r \in Reqs :
          /\ req[r].kind = "create"
          /\ req[r].pc = "done"
          /\ req[r].status = 500
          /\ req[r].rolledBack
    /\ nextTripId > 1
    /\ \A t \in TripIds : ~trips[t].exists /\ dayPlans[t] = <<>>

Commits(r) ==
    \/ req[r].pc = "cCommit" /\ req'[r].status = 201
    \/ req[r].pc = "txCommit" /\ req'[r].status = 200

\* C9: after a committed create or regenerate, the PlannedActivity rows of
\* the DayPlan of day d are exactly one row per item of day d of the plan,
\* the i-th item with order index i (1-based).
C9_OrderIndexes ==
    [][\A r \in Reqs :
          Commits(r)
          => LET p == req[r].plan
                 rows == dayPlans'[TripOf(r)]
             IN  \A d \in 1 .. req[r].base.daysCount :
                    \E k \in 1 .. Len(rows) :
                       /\ rows[k].dayNumber = d
                       /\ rows[k].plannedActivities
                             = {[activityId |-> p.days[d][i], orderIndex |-> i] :
                                   i \in 1 .. Len(p.days[d])}]_vars

C9_Witness ==
    \E r \in Reqs :
        /\ req[r].kind = "regen"
        /\ req[r].pc = "finally"
        /\ req[r].status = 200
        /\ \E k \in 1 .. Len(dayPlans[TripOf(r)]) :
              Cardinality(dayPlans[TripOf(r)][k].plannedActivities) >= 2

\* C10: a regenerate request that commits for a destination without
\* activities leaves exactly daysCount DayPlan rows, none with a
\* PlannedActivity row, and answers with the fallback's warning, not the
\* planner's.
C10_EmptyCatalog ==
    [][\A r \in Reqs :
          ( /\ req[r].pc = "txCommit"
            /\ req'[r].status = 200
            /\ \A a \in Seed : a.destination # req[r].base.destination )
          => /\ dayPlans'[TripOf(r)]
                   = [d \in 1 .. req[r].base.daysCount |->
                         [dayNumber |-> d, plannedActivities |-> {}]]
             /\ req'[r].warning = "NoActivitiesFound"]_vars

C10_Witness ==
    \E r \in Reqs :
        /\ req[r].kind = "regen"
        /\ req[r].pc = "finally"
        /\ req[r].status = 200
        /\ req[r].warning = "NoActivitiesFound"
        /\ trips[TripOf(r)].exists
        /\ trips[TripOf(r)].destination = "Rome"
        /\ \A k \in 1 .. Len(dayPlans[TripOf(r)]) :
              dayPlans[TripOf(r)][k].plannedActivities = {}

\* r's transaction commits in this step of its regenerate request
CommitsRegen(r) == req[r].pc = "txCommit" /\ req'[r].status = 200

\* the DayPlan and PlannedActivity rows that the handler writes for a trip of
\* that destination and day count when it allocates from interests
RowsFrom(destination, daysCount, interests) ==
    WithPlanned(NewDayPlans(daysCount),
                PlanOf(RegenPlan(FindActivities(destination), daysCount, interests)),
                daysCount)

HasOverride(r) ==
    /\ req[r].kind = "regen"
    /\ req[r].incomingInterests.type = "string"
    /\ Trim(req[r].incomingInterests.val) # <<>>

\* C11: a regenerate request with a valid override commits, in one step, the
\* plan allocated from the trimmed override together with the trimmed
\* override as the trip's stored interests; no other step of the request
\* changes the plan or the interests.
C11_OverridePersisted ==
    [][\A r \in Reqs :
          HasOverride(r)
          => LET o == Trim(req[r].incomingInterests.val)
                 t == TripOf(r)
                 b == req[r].base
             IN  IF CommitsRegen(r)
                 THEN /\ dayPlans'[t] = RowsFrom(b.destination, b.daysCount, o)
                      /\ trips'[t].interests = o
                 ELSE Moves(r) => Plans' = Plans]_vars

\* r's handler starts in this step and loads the trip row
StartsRegen(r) == Free(r) /\ req'[r].kind = "regen" /\ Moves(r)

\* C12: regenerate answers 404 exactly when no trip has the id, 403 exactly
\* when the trip exists and belongs to another user, and 409 only when the
\* caller owns the trip and its lock expiry is not earlier than the request's
\* clock reading; no step of a request answered 404 or 403, its cleanup
\* included, changes a Trip row, a DayPlan row or a PlannedActivity row.
C12_DistinctRejections ==
    [][\A r \in Reqs :
          /\ StartsRegen(r)
             => LET t == req'[r].tripId
                    found == t \in TripIds /\ trips[t].exists
                IN  /\ req'[r].status = 404 <=> ~found
                    /\ req'[r].status = 403
                          <=> (found /\ trips[t].userId # req'[r].userId)
          /\ (EvaluatesAcquire(r) /\ req'[r].status = 409)
             => LET row == trips[TripOf(r)]
                IN  /\ row.exists
                    /\ row.userId = req[r].userId
                    /\ row.regenLockUntil # NoLock
                    /\ row.regenLockUntil[1] >= req[r].now
          /\ ( /\ req[r].kind = "regen"
               /\ req[r].status \in {403, 404}
               /\ Moves(r) )
             => (trips' = trips /\ dayPlans' = dayPlans)]_vars

\* C18: when a regenerate request without an override commits, the plan it
\* commits is the one allocated from the interest string that the trip stores
\* in the committed state.
C18_PlanFromStoredInterests ==
    [][\A r \in Reqs :
          ( /\ CommitsRegen(r)
            /\ req[r].incomingInterests = Undefined )
          => LET row == trips'[TripOf(r)]
             IN  dayPlans'[TripOf(r)]
                    = RowsFrom(row.destination, row.daysCount, row.interests)]_vars

\* the override is present and fails the validation
InvalidOverride(r) ==
    /\ req[r].kind = "regen"
    /\ req[r].incomingInterests # Undefined
    /\ ~HasOverride(r)

C20_CleanupOnlyOwnLock ==
    [][\A r \in Reqs :
          LET row == trips[TripOf(r)]
          IN  ( /\ req[r].kind = "regen"
                /\ req[r].pc = "finally"
                /\ req[r].acquired
                /\ req'[r].pc = "done"
                /\ row.exists
                /\ row.regenLockUntil # NoLock
                /\ row.regenLockUntil # <<req[r].lockUntil>> )
              => trips'[TripOf(r)].regenLockUntil = row.regenLockUntil]_vars

\* C13: every step of a regenerate request leaves the Trip row (lock expiry
\* and interests) and the DayPlan and PlannedActivity rows of every other
\* trip as they were, and its conditional lock write hits exactly when the
\* row of its own trip is the caller's and has a null or expired lock
\* expiry, whatever the lock expiry of the other trips.
C13_DifferentTripsIndependent ==
    [][\A r \in Reqs :
          /\ (req[r].kind = "regen" /\ ~Free(r) /\ Moves(r))
             => \A b \in DOMAIN trips \ {TripOf(r)} :
                   trips'[b] = trips[b] /\ dayPlans'[b] = dayPlans[b]
          /\ EvaluatesAcquire(r)
             => LET row == trips[TripOf(r)]
                IN  req'[r].acquired
                       <=> /\ row.exists
                           /\ row.userId = req[r].userId
                           /\ \/ row.regenLockUntil = NoLock
                              \/ row.regenLockUntil[1] < req[r].now]_vars

C13_Witness ==
    \E r, h \in Reqs :
        /\ InFlight(r)
        /\ InFlight(h)
        /\ TripOf(r) # TripOf(h)
        /\ req[r].pc = "txCommit"
        /\ req[h].pc = "txCommit"
        /\ trips[TripOf(r)].regenLockUntil # NoLock
        /\ trips[TripOf(h)].regenLockUntil # NoLock

\* ------------------------------------------------------- claims: planner
\* the hours of the activities of one day of a plan
RECURSIVE Hours(_)
Hours(day) ==
    IF day = <<>> THEN 0 ELSE day[1].durationHours + Hours(Tail(day))

AllocDays == 1 .. Len(alloc.plan.days)

\* the positions (day, index) of the plan
Slots == {<<d, k>> \in AllocDays \X (1 .. PoolSize + 1) :
             k <= Len(alloc.plan.days[d])}

Placeable == {a \in alloc.activities : a.durationHours <= DailyCapacity}

NonEmptyDays == {d \in AllocDays : alloc.plan.days[d] # <<>>}

\* C14: the plan has daysCount days, the hours of each day are at most the
\* daily capacity, an activity longer than the capacity is in no day, and
\* the plan is the one the pool without those activities gives.
C14_Capacity ==
    alloc.returned
    => /\ Len(alloc.plan.days) = alloc.daysCount
       /\ \A d \in AllocDays : Hours(alloc.plan.days[d]) <= DailyCapacity
       /\ \A s \in Slots :
             alloc.plan.days[s[1]][s[2]].durationHours <= DailyCapacity
       /\ alloc.plan.days
             = generateItinerary(Placeable, alloc.daysCount, alloc.interests).days

C14_Witness ==
    /\ alloc.returned
    /\ \E a \in alloc.activities : a.durationHours > DailyCapacity
    /\ \E d \in AllocDays : Hours(alloc.plan.days[d]) = DailyCapacity
    /\ \E d \in AllocDays : Len(alloc.plan.days[d]) >= 2
    /\ \E a \in Placeable : \A s \in Slots : alloc.plan.days[s[1]][s[2]] # a

C16_Shortfall ==
    ( /\ alloc.returned
      /\ Cardinality(Placeable) < alloc.daysCount )
    => /\ Cardinality(NonEmptyDays) = Cardinality(Placeable)
       /\ Cardinality(AllocDays \ NonEmptyDays)
             = alloc.daysCount - Cardinality(Placeable)
       /\ alloc.plan.warning # "None"

\* C17: with at least daysCount placeable activities, the plan has no empty
\* day and no warning.
C17_CoverageFirst ==
    ( /\ alloc.returned
      /\ Cardinality(Placeable) >= alloc.daysCount )
    => /\ NonEmptyDays = AllocDays
       /\ alloc.plan.warning = "None"

PresentsToken(r) == AuthFree(r) /\ auth'.sess[r] # auth.sess[r]

\* C22: a request that presents a token for which a logout has answered 200
\* is answered 401 by requireAuth, whatever logins, logouts of other tokens
\* (with their purges) and clock ticks came in between.
C22_RevokedStaysRejected ==
    [][\A r \in Reqs :
          ( /\ PresentsToken(r)
            /\ auth'.sess[r].token \in auth.loggedOut )
          => /\ auth'.sess[r].pc = "done"
             /\ auth'.sess[r].status = 401]_vars

\* a logged-out token whose row a later logout has purged is presented and
\* rejected
C22_Witness ==
    \E r \in Reqs :
        LET token == auth.sess[r].token
        IN  /\ auth.sess[r].pc = "done"
            /\ auth.sess[r].status = 401
            /\ token \in auth.loggedOut
            /\ FindRevoked(auth.revokedTokens, hashToken(token)) = {}
            /\ auth.revokedTokens # {}

====
